---- MODULE Spec2Model ----
(***************************************************************************)
(* portal_daemon: the Supervisor loop (run_daemon), the Pause Store read   *)
(* (check_pause), the Suspend Invoker (enter_hibernation) and the Control  *)
(* Action (run_control_menu), as two processes that share the pause marker *)
(* file /tmp/portal.pause and the wall clock.                              *)
(***************************************************************************)
EXTENDS Integers, Sequences, FiniteSets

\* ---------------------------------------------------------------- bounds
MaxTicks == 3          \* number of clock advances in one behaviour
MaxCtlRuns == 2        \* number of invocations of the control menu
MaxHostChanges == 2    \* number of changes of /etc/doas.conf

\* ------------------------------------------------------ program constants
Cooldown == 60         \* thread::sleep(Duration::from_secs(60))
SecPerMin == 60        \* mins * 60

\* The clock is observed at whole minutes.
TickSteps == {SecPerMin}

\* Durations (seconds) a configuration document holds.
ConfigSecs == {0, 60}

\* PortalConfig::default() (lines 41-53)
DefaultConfig ==
    [lighthouse_ip |-> "192.168.1.1", sleep_minutes |-> 60,
     grace_period_sec |-> 300, wakeup_wait_sec |-> 30, scan_interval_sec |-> 60]

\* The PortalConfig values run_daemon is started with in Spec: the durations
\* the loop sleeps for vary, the address and the suspend duration do not.
LoopConfigs ==
    [lighthouse_ip : {DefaultConfig.lighthouse_ip},
     sleep_minutes : {DefaultConfig.sleep_minutes},
     scan_interval_sec : ConfigSecs,
     grace_period_sec : ConfigSecs,
     wakeup_wait_sec : ConfigSecs]

\* The flags of a plain start of the daemon.
NoFlags == [install |-> FALSE, configure |-> FALSE, off |-> FALSE]

\* A configuration document: absent, malformed (serde_json::from_str fails),
\* or valid with the PortalConfig it deserializes to.
DocAbsent == [state |-> "absent", cfg |-> DefaultConfig]

DocMalformed == [state |-> "malformed", cfg |-> DefaultConfig]

DocOf(c) == [state |-> "valid", cfg |-> c]

\* Numbers of minutes the operator enters at the prompt.
MinuteInputs == {0, 1}

\* u64 arithmetic, scaled from 64 bits to 16.
U64Modulus == 2 ^ 16

\* Minutes from the whole range of u64: small ones, the smallest whose
\* seconds reach the modulus together with a clock past the first minute,
\* and the largest u64.
WideMinuteInputs == MinuteInputs \cup {U64Modulus \div SecPerMin, U64Modulus - 1}

\* ------------------------------------------------------------- text model
Digits == <<"0", "1", "2", "3", "4", "5", "6", "7", "8", "9">>

IsSpace(ch) == ch \in {" ", "\n"}

IsDigit(ch) == \E i \in 1..10 : Digits[i] = ch

DigitVal(ch) == (CHOOSE i \in 1..10 : Digits[i] = ch) - 1

\* u64::to_string: decimal digits, no sign, no padding.
RECURSIVE ToString(_)
ToString(n) ==
    IF n < 10 THEN <<Digits[n + 1]>>
    ELSE ToString(n \div 10) \o <<Digits[(n % 10) + 1]>>

\* str::trim: drops leading and trailing whitespace.
RECURSIVE TrimStart(_)
TrimStart(s) ==
    IF s # <<>> /\ IsSpace(Head(s)) THEN TrimStart(Tail(s)) ELSE s

RECURSIVE TrimEnd(_)
TrimEnd(s) ==
    IF s # <<>> /\ IsSpace(s[Len(s)]) THEN TrimEnd(SubSeq(s, 1, Len(s) - 1)) ELSE s

Trim(s) == TrimEnd(TrimStart(s))

RECURSIVE DigitsValue(_, _)
DigitsValue(s, acc) ==
    IF s = <<>> THEN acc
    ELSE DigitsValue(Tail(s), acc * 10 + DigitVal(Head(s)))

ParseErr == -1

\* str::parse::<u64>: an optional "+", then one or more decimal digits;
\* anything else (empty text, a "-", a letter) is an error.
ParseU64(s) ==
    LET body == IF s # <<>> /\ Head(s) = "+" THEN Tail(s) ELSE s
    IN  IF body = <<>> \/ \E i \in 1..Len(body) : ~IsDigit(body[i])
        THEN ParseErr
        ELSE DigitsValue(body, 0)

\* ------------------------------------------------------------- the marker
NoFile == [exists |-> FALSE, data |-> <<>>]

FileOf(s) == [exists |-> TRUE, data |-> s]

\* What /tmp/portal.pause holds when the daemon starts: nothing, or what an
\* earlier run or another writer left there.
LeftoverContents == { <<"x">>, <<"-", "1">>, <<" ", "6", "0", "\n">> }

InitialMarkers == {NoFile} \cup {FileOf(c) : c \in LeftoverContents}

VARIABLES
    now,        \* wall clock, seconds since the epoch
    ticks,      \* clock advances so far
    file,       \* the pause marker /tmp/portal.pause
    doasConf,   \* whether /etc/doas.conf exists
    args,       \* the command-line flags (Args)
    root,       \* is_root(): whether the process runs as user 0
    doc,        \* the configuration document /etc/portal_daemon/config.json
    boot,       \* position of main
    cfgFrom,    \* where main took the PortalConfig from
    cfg,        \* the PortalConfig handed to run_daemon
    inst,       \* the Supervisor instances started after a kill
    host,       \* the changes of /etc/doas.conf so far
    sup,        \* position of the Supervisor
    site,       \* which call of check_pause is running: 1 (line 374) or 2 (line 384)
    cpEnd,      \* check_pause's local `end`
    wakeAt,     \* earliest instant at which the current thread::sleep returns
    privCmd,    \* enter_hibernation's local `priv_cmd`
    ctl,        \* position of the Control Action process
    ctlEnd,     \* run_control_menu's local `end`
    ctlRuns,    \* invocations of the control menu so far
    replaced,   \* the active expiry the last pause activation overwrote, or -1
    it,         \* what the current loop iteration has done so far
    lastSet,    \* expiry of the operator's pause still in force, or -1
    healed      \* a read deleted an expired marker and nothing was written since

vars == <<now, ticks, file, doasConf, args, root, doc, boot, cfgFrom, cfg, inst, host, sup, site, cpEnd, wakeAt, privCmd,
          ctl, ctlEnd, ctlRuns, replaced, it, lastSet, healed>>

supVars == <<sup, site, cpEnd, wakeAt, privCmd, it>>
ctlVars == <<ctl, ctlEnd, ctlRuns, replaced>>
hostVars == <<doasConf, args, root, doc, boot, cfgFrom, cfg, inst, host>>

\* The record of one iteration of the loop of run_daemon:
\*   c1, c2   outcome of the pause check at line 374 and at line 384
\*   p1, p2   outcome of the probe at line 379 and at line 388
\*   susp     calls of enter_hibernation
\*   cmds     privileged commands run
\*   hibAt    instant at which the suspend command returned its status
\*   hibOk    whether it was started and exited with status zero
\*   slept    instant at which the poll-interval sleep of line 375 began
\*   setIn    phase of the loss cycle in which the operator's pause was written
\*   lostAt   instant at which the probe of line 379 failed, until line 388
\*   waited   whether the probe of line 388 ran at least the grace period later
\*   ran      the privileged command that was run
\*   outcome  what Command::status() returned for it
\* /etc/doas.conf is as it was when the program started; `usedBefore` is the
\* command of the call of enter_hibernation that preceded the last change.
HostStart == [changes |-> 0, usedBefore |-> "none"]

\* No Supervisor has been started in place of a killed one.
FirstInstance == [n |-> 0, midLoss |-> FALSE]

IterStart ==
    [c1 |-> "none", c2 |-> "none", p1 |-> "none", p2 |-> "none",
     susp |-> 0, cmds |-> 0, hibAt |-> -1, hibOk |-> FALSE,
     slept |-> -1, setIn |-> "none", lostAt |-> -1,
     waited |-> FALSE, ran |-> "none", outcome |-> "none"]

Init ==
    /\ now = 0
    /\ ticks = 0
    /\ file \in InitialMarkers
    /\ doasConf = FALSE
    /\ args = NoFlags
    /\ root = TRUE
    /\ cfg \in LoopConfigs
    /\ doc = DocOf(cfg)
    /\ boot = "daemon"
    /\ cfgFrom = "document"
    /\ sup = "cp_exists"
    /\ site = 1
    /\ cpEnd = -1
    /\ wakeAt = 0
    /\ privCmd = "none"
    /\ ctl = "idle"
    /\ ctlEnd = 0
    /\ ctlRuns = 0
    /\ replaced = -1
    /\ it = IterStart
    /\ lastSet = -1
    /\ healed = FALSE
    /\ inst = FirstInstance
    /\ host = HostStart

\* ------------------------------------------------------------- the clock
Tick ==
    /\ ticks < MaxTicks
    /\ \E d \in TickSteps : now' = now + d
    /\ ticks' = ticks + 1
    /\ UNCHANGED <<file, hostVars, supVars, ctlVars, lastSet, healed>>

\* ------------------------------------------------- check_pause (410-429)
\* The iteration whose record the running step extends: the first step of a
\* new iteration starts a fresh record.
Cur == IF site = 1 /\ sup = "cp_exists" THEN IterStart ELSE it

\* IsActive with `now <= end`.
IsActive_Inclusive(t, end) == t <= end

\* `now < end` (line 418)
IsActive(t, end) == t < end

\* AfterCheck with the result of the check at line 384 ignored.
AfterCheck_IgnoreSecond(ret) ==
    IF site = 1
    THEN IF ret THEN "sleep_paused" ELSE "ping1"
    ELSE "ping2"

\* AfterCheck with the probe made although the check at line 374 found a pause.
AfterCheck_ProbeWhenPaused(ret) ==
    IF site = 1
    THEN "ping1"
    ELSE IF ret THEN "cp_exists" ELSE "ping2"

\* Where run_daemon goes when check_pause returns `ret` (lines 374-377, 384-386).
AfterCheck(ret) ==
    IF site = 1
    THEN IF ret THEN "sleep_paused" ELSE "ping1"
    ELSE IF ret THEN "cp_exists" ELSE "ping2"

\* check_pause returns `ret`, having found the marker in state `kind`.
CpReturn(ret, kind) ==
    /\ sup' = AfterCheck(ret)
    /\ site' = 1
    /\ cpEnd' = -1
    /\ wakeAt' = IF sup' = "sleep_paused" THEN now + cfg.scan_interval_sec ELSE 0
    /\ it' = IF site = 1
             THEN [Cur EXCEPT !.c1 = kind,
                              !.slept = IF sup' = "sleep_paused" THEN now ELSE -1]
             ELSE [Cur EXCEPT !.c2 = kind]
    /\ UNCHANGED privCmd

\* Path::new(PAUSE_FILE).exists() (line 411)
CpExists ==
    /\ sup = "cp_exists"
    /\ IF file.exists
       THEN /\ sup' = "cp_read"
            /\ it' = Cur
            /\ UNCHANGED <<site, cpEnd, wakeAt, privCmd>>
       ELSE CpReturn(FALSE, "absent")
    /\ UNCHANGED <<now, ticks, file, hostVars, ctlVars, lastSet, healed>>

\* fs::read_to_string(PAUSE_FILE) and c.trim().parse::<u64>() (lines 412-413)
CpRead ==
    /\ sup = "cp_read"
    /\ LET end == IF file.exists THEN ParseU64(Trim(file.data)) ELSE ParseErr
       IN  IF end = ParseErr
           THEN /\ sup' = "cp_rm_bad"
                /\ UNCHANGED cpEnd
           ELSE /\ sup' = "cp_now"
                /\ cpEnd' = end
    /\ UNCHANGED <<site, wakeAt, privCmd, it>>
    /\ UNCHANGED <<now, ticks, file, hostVars, ctlVars, lastSet, healed>>

\* SystemTime::now() and the comparison (lines 414-420)
CpNow ==
    /\ sup = "cp_now"
    /\ IF IsActive(now, cpEnd)
       THEN CpReturn(TRUE, "active")
       ELSE /\ sup' = "cp_rm_exp"
            /\ UNCHANGED <<site, cpEnd, wakeAt, privCmd, it>>
    /\ UNCHANGED <<now, ticks, file, hostVars, ctlVars, lastSet, healed>>

\* CpRemoveExpired with the expired marker still counted as a pause for the
\* iteration that finds it.
CpRemoveExpired_ExtraCycle ==
    /\ sup = "cp_rm_exp"
    /\ file' = NoFile
    /\ CpReturn(TRUE, "expired")
    /\ healed' = TRUE
    /\ UNCHANGED <<now, ticks, hostVars, ctlVars, lastSet>>

\* CpRemoveExpired leaving the expired marker in place.
CpRemoveExpired_NoDelete ==
    /\ sup = "cp_rm_exp"
    /\ file' = file
    /\ CpReturn(FALSE, "expired")
    /\ healed' = TRUE
    /\ UNCHANGED <<now, ticks, hostVars, ctlVars, lastSet>>

\* fs::remove_file(PAUSE_FILE).ok(); return false (lines 421-422)
CpRemoveExpired ==
    /\ sup = "cp_rm_exp"
    /\ file' = NoFile
    /\ CpReturn(FALSE, "expired")
    /\ healed' = TRUE
    /\ UNCHANGED <<now, ticks, hostVars, ctlVars, lastSet>>

\* CpRemoveBad emptying the marker instead of deleting it.
CpRemoveBad_Truncate ==
    /\ sup = "cp_rm_bad"
    /\ file' = FileOf(<<>>)
    /\ CpReturn(FALSE, "garbage")
    /\ UNCHANGED <<now, ticks, hostVars, ctlVars, lastSet, healed>>

\* fs::remove_file(PAUSE_FILE).ok(); false (lines 426-428)
CpRemoveBad ==
    /\ sup = "cp_rm_bad"
    /\ file' = NoFile
    /\ CpReturn(FALSE, "garbage")
    /\ UNCHANGED <<now, ticks, hostVars, ctlVars, lastSet, healed>>

\* --------------------------------------------------- run_daemon (373-397)
\* check_ping at line 379 and what follows it (lines 380-383)
Ping1 ==
    /\ sup = "ping1"
    /\ \E up \in BOOLEAN :
         /\ sup' = IF up THEN "sleep_ok" ELSE "sleep_grace"
         /\ wakeAt' = now + (IF up THEN cfg.scan_interval_sec ELSE cfg.grace_period_sec)
         /\ it' = [it EXCEPT !.p1 = IF up THEN "up" ELSE "down",
                              !.lostAt = IF up THEN -1 ELSE now]
    /\ UNCHANGED <<site, cpEnd, privCmd>>
    /\ UNCHANGED <<now, ticks, file, hostVars, ctlVars, lastSet, healed>>

\* A thread::sleep returns: the Supervisor moves from `from` to `to`.
Wake(from, to, toSite) ==
    /\ sup = from
    /\ now >= wakeAt
    /\ sup' = to
    /\ site' = toSite
    /\ wakeAt' = 0
    /\ UNCHANGED <<cpEnd, privCmd, it>>
    /\ UNCHANGED <<now, ticks, file, hostVars, ctlVars, lastSet, healed>>

\* the sleep of line 375 returns; `continue`
WakePaused == Wake("sleep_paused", "cp_exists", 1)

\* the sleep of line 380 returns; the loop body ends
WakeOk == Wake("sleep_ok", "cp_exists", 1)

\* WakeGrace without the pause check of line 384.
WakeGrace_SkipCheck == Wake("sleep_grace", "ping2", 1)

\* the sleep of line 383 returns; check_pause is called at line 384
WakeGrace == Wake("sleep_grace", "cp_exists", 2)

\* the sleep of line 394 returns; the loop body ends
WakeSettle == Wake("sleep_wake", "cp_exists", 1)

\* AfterPing2 with enter_hibernation called whatever the second probe says.
AfterPing2_AlwaysSuspend(up) == "hib_select"

\* AfterPing2 with enter_hibernation never called.
AfterPing2_NeverSuspend(up) == "cp_exists"

\* AfterPing2 with the condition inverted.
AfterPing2_Inverted(up) == IF up THEN "hib_select" ELSE "cp_exists"

\* The branch on the second probe (lines 388-392): the loop body ends, or
\* enter_hibernation is called.
AfterPing2(up) == IF up THEN "cp_exists" ELSE "hib_select"

\* check_ping at line 388 and what follows it (lines 389-391)
Ping2 ==
    /\ sup = "ping2"
    /\ \E up \in BOOLEAN :
         /\ sup' = AfterPing2(up)
         /\ it' = [it EXCEPT !.p2 = IF up THEN "up" ELSE "down",
                              !.waited = /\ it.lostAt # -1
                                         /\ now >= it.lostAt + cfg.grace_period_sec,
                              !.lostAt = -1]
    /\ UNCHANGED <<site, cpEnd, wakeAt, privCmd>>
    /\ UNCHANGED <<now, ticks, file, hostVars, ctlVars, lastSet, healed>>

\* ------------------------------------------- enter_hibernation (493-512)
\* the choice of priv_cmd (lines 494-498)
HibSelect ==
    /\ sup = "hib_select"
    /\ privCmd' = IF doasConf THEN "doas" ELSE "sudo"
    /\ sup' = "hib_cmd"
    /\ it' = [it EXCEPT !.susp = @ + 1]
    /\ UNCHANGED <<site, cpEnd, wakeAt>>
    /\ UNCHANGED <<now, ticks, file, hostVars, ctlVars, lastSet, healed>>

\* Outcomes of Command::status(): Ok with exit status zero, Ok with another
\* exit status, Err (the command could not be started).
CmdOutcomes == {"ok", "nonzero", "spawn_err"}

\* CmdSucceeded with every command that could be started counted a success.
CmdSucceeded_AnyStatus(outcome) == outcome # "spawn_err"

\* `if let Ok(s) = status_result { if s.success() {...} }` (lines 504-505)
CmdSucceeded(outcome) == outcome = "ok"

\* AfterCommand without the cooldown of line 511.
AfterCommand_NoCooldown(ok) == "sleep_wake"

\* AfterCommand with the process exiting when the command failed.
AfterCommand_ExitOnFailure(ok) == IF ok THEN "sleep_wake" ELSE "exit"

\* What enter_hibernation does once the status is known: return (line 507),
\* or sleep for the cooldown (line 511).
AfterCommand(ok) == IF ok THEN "sleep_wake" ELSE "sleep_cool"

\* Command::new(priv_cmd)...status() and the branch on it (lines 500-511);
\* on success enter_hibernation returns and run_daemon sleeps (lines 393-394).
HibCommand ==
    /\ sup = "hib_cmd"
    /\ \E outcome \in CmdOutcomes :
         LET ok == CmdSucceeded(outcome)
         IN  /\ sup' = AfterCommand(ok)
             /\ wakeAt' = now + (IF sup' = "sleep_wake" THEN cfg.wakeup_wait_sec
                                 ELSE Cooldown)
             /\ it' = [it EXCEPT !.cmds = @ + 1, !.hibAt = now, !.hibOk = ok,
                                  !.ran = privCmd, !.outcome = outcome]
    /\ privCmd' = "none"
    /\ UNCHANGED <<site, cpEnd>>
    /\ UNCHANGED <<now, ticks, file, hostVars, ctlVars, lastSet, healed>>

\* the sleep of line 511 returns, enter_hibernation returns, run_daemon
\* sleeps (lines 393-394)
WakeCooldown ==
    /\ sup = "sleep_cool"
    /\ now >= wakeAt
    /\ sup' = "sleep_wake"
    /\ wakeAt' = now + cfg.wakeup_wait_sec
    /\ UNCHANGED <<site, cpEnd, privCmd, it>>
    /\ UNCHANGED <<now, ticks, file, hostVars, ctlVars, lastSet, healed>>

SupNext ==
    \/ CpExists \/ CpRead \/ CpNow \/ CpRemoveExpired \/ CpRemoveBad
    \/ Ping1 \/ WakePaused \/ WakeOk \/ WakeGrace \/ Ping2
    \/ HibSelect \/ HibCommand \/ WakeCooldown \/ WakeSettle

\* --------------------------------------------- run_control_menu (218-259)
\* Where in a loss cycle (after a failed first probe, before the second
\* probe) the Supervisor is: "before" the pause check of line 384 has looked
\* at the marker, or "after" it has (the check has read the marker or found
\* none, and the second probe has not been made yet).
LossPhase ==
    IF it.p1 # "down" \/ it.p2 # "none" THEN "none"
    ELSE IF sup = "sleep_grace" \/ (sup \in {"cp_exists", "cp_read"} /\ site = 2)
         THEN "before"
    ELSE IF sup = "ping2" \/ (sup \in {"cp_now", "cp_rm_exp", "cp_rm_bad"} /\ site = 2)
         THEN "after"
    ELSE "none"

\* PauseEnd with the minutes added to the expiry of a pause still active.
PauseEnd_Stacked(t, mins) ==
    (IF file.exists /\ ParseU64(Trim(file.data)) > t
     THEN ParseU64(Trim(file.data)) ELSE t) + (mins * SecPerMin)

\* `mins * 60` or the sum of lines 237-241 does not fit in a u64.
Overflows(t, mins) ==
    \/ mins * SecPerMin >= U64Modulus
    \/ t + (mins * SecPerMin) >= U64Modulus

\* `now + (mins * 60)` in u64 arithmetic (lines 237-241), as a build without
\* overflow checks computes it.
PauseEnd(t, mins) == (t + ((mins * SecPerMin) % U64Modulus)) % U64Modulus

\* selection 0 with `mins` typed at the prompt, and
\* `let end = SystemTime::now()... + (mins * 60)` (lines 231-241). On
\* overflow a build with overflow checks panics and the menu is gone; a
\* build without them goes on with the wrapped value.
CtlPauseWith(mins) ==
    /\ ctl = "idle"
    /\ ctlRuns < MaxCtlRuns
    /\ ctlRuns' = ctlRuns + 1
    /\ \/ /\ ctlEnd' = PauseEnd(now, mins)
          /\ ctl' = "c_write"
       \/ /\ Overflows(now, mins)
          /\ ctlEnd' = 0
          /\ ctl' = "idle"
    /\ UNCHANGED <<now, ticks, file, hostVars, supVars, lastSet, replaced, healed>>

\* selection 0 and the prompt for the minutes (lines 231-236)
CtlPause == \E mins \in MinuteInputs : CtlPauseWith(mins)

\* CtlPause with the minutes taken from all of u64.
CtlPauseAny == \E mins \in WideMinuteInputs : CtlPauseWith(mins)

\* fs::write(PAUSE_FILE, end.to_string()).ok() (line 242)
CtlWrite ==
    /\ ctl = "c_write"
    /\ file' = FileOf(ToString(ctlEnd))
    /\ ctl' = "idle"
    /\ ctlEnd' = 0
    /\ lastSet' = IF now < ctlEnd THEN ctlEnd ELSE -1
    /\ healed' = FALSE
    /\ replaced' = IF lastSet # -1 /\ file = FileOf(ToString(lastSet)) /\ now < lastSet
                   THEN lastSet ELSE -1
    /\ it' = [it EXCEPT !.setIn = IF now < ctlEnd THEN LossPhase ELSE "none"]
    /\ UNCHANGED ctlRuns
    /\ UNCHANGED <<now, ticks, hostVars, sup, site, cpEnd, wakeAt, privCmd>>

\* selection 1: fs::remove_file(PAUSE_FILE).ok() (lines 245-248)
CtlResume ==
    /\ ctl = "idle"
    /\ ctlRuns < MaxCtlRuns
    /\ ctlRuns' = ctlRuns + 1
    /\ file' = NoFile
    /\ lastSet' = -1
    /\ replaced' = -1
    /\ it' = [it EXCEPT !.setIn = "none"]
    /\ UNCHANGED healed
    /\ UNCHANGED <<ctl, ctlEnd>>
    /\ UNCHANGED <<now, ticks, hostVars, sup, site, cpEnd, wakeAt, privCmd>>

\* What becomes of the process running the control menu when pkill signals
\* the processes whose command line holds "portal_daemon": the menu is such
\* a process itself (BINARY_DEST, line 19, started with --off). It is gone
\* (back to "idle": no menu runs) when the signal reaches it before line 254,
\* and goes on to line 254 otherwise.
KillOutcomes == {"idle", "c_kill_rm"}

\* selection 2: pkill -f portal_daemon (lines 249-253)
CtlKill ==
    /\ ctl = "idle"
    /\ ctlRuns < MaxCtlRuns
    /\ ctlRuns' = ctlRuns + 1
    /\ sup' = "killed"
    /\ ctl' \in KillOutcomes
    /\ UNCHANGED <<ctlEnd, replaced>>
    /\ UNCHANGED <<now, ticks, file, hostVars, site, cpEnd, wakeAt, privCmd, it,
                   lastSet, healed>>

\* selection 2, continued: fs::remove_file(PAUSE_FILE).ok() (line 254)
CtlKillRemove ==
    /\ ctl = "c_kill_rm"
    /\ file' = NoFile
    /\ ctl' = "idle"
    /\ lastSet' = -1
    /\ replaced' = -1
    /\ it' = [it EXCEPT !.setIn = "none"]
    /\ UNCHANGED healed
    /\ UNCHANGED <<ctlEnd, ctlRuns>>
    /\ UNCHANGED <<now, ticks, hostVars, sup, site, cpEnd, wakeAt, privCmd>>

\* selection 3: leave the menu (line 257)
CtlExit ==
    /\ ctl = "idle"
    /\ ctlRuns < MaxCtlRuns
    /\ ctlRuns' = ctlRuns + 1
    /\ UNCHANGED <<ctl, ctlEnd>>
    /\ UNCHANGED <<now, ticks, file, hostVars, supVars, lastSet, replaced, healed>>

CtlNext ==
    \/ CtlPause \/ CtlWrite
    \/ CtlResume \/ CtlKill \/ CtlKillRemove \/ CtlExit

Next == Tick \/ SupNext \/ CtlNext

Spec == Init /\ [][Next]_vars

\* ------------------------------------------------ changes of the host
\* /etc/doas.conf (DOAS_CONF) is created or removed by the administrator
\* while the Supervisor runs.
HostChange ==
    /\ host.changes < MaxHostChanges
    /\ doasConf' = ~doasConf
    /\ host' = [changes |-> host.changes + 1, usedBefore |-> it.ran]
    /\ UNCHANGED <<now, ticks, file, args, root, doc, boot, cfgFrom, cfg, inst,
                   supVars, ctlVars, lastSet, healed>>

\* The loop of run_daemon on a host whose doas configuration changes.
NextHost == Tick \/ SupNext \/ HostChange

SpecHost == Init /\ [][NextHost]_vars

\* ------------------------------------------------ the loop left to itself
\* The Supervisor alone, with a marker left from before it started: none,
\* one that does not parse, a pause still to expire, a pause that expired.
InitLive ==
    /\ now = 0
    /\ ticks = 0
    /\ file \in InitialMarkers \cup {FileOf(ToString(0))}
    /\ doasConf = FALSE
    /\ args = NoFlags
    /\ root = TRUE
    /\ cfg \in LoopConfigs
    /\ doc = DocOf(cfg)
    /\ boot = "daemon"
    /\ cfgFrom = "document"
    /\ sup = "cp_exists"
    /\ site = 1
    /\ cpEnd = -1
    /\ wakeAt = 0
    /\ privCmd = "none"
    /\ ctl = "idle"
    /\ ctlEnd = 0
    /\ ctlRuns = 0
    /\ replaced = -1
    /\ it = IterStart
    /\ lastSet = -1
    /\ healed = FALSE
    /\ inst = FirstInstance
    /\ host = HostStart

\* A thread::sleep of the Supervisor comes to its end. Time is kept relative
\* to the running sleep here: instead of the clock reaching the deadline,
\* the deadline is moved to the clock, so that no bound on the clock stops
\* the loop.
SleepEnds ==
    /\ sup \in {"sleep_paused", "sleep_ok", "sleep_grace", "sleep_cool", "sleep_wake"}
    /\ wakeAt > now
    /\ wakeAt' = now
    /\ UNCHANGED <<now, ticks, file, hostVars, sup, site, cpEnd, privCmd, it,
                   ctlVars, lastSet, healed>>

NextLive == SupNext \/ SleepEnds

\* The Supervisor keeps running (its calls return) and its sleeps end.
SpecLive == InitLive /\ [][NextLive]_vars /\ WF_vars(SupNext) /\ WF_vars(SleepEnds)

\* --------------------------------------- the loop while a pause runs out
\* Time kept relative to the current instant: `now` stays where it is and a
\* minute that passes brings every stored instant one minute nearer. Every
\* comparison in the program is between the current time and a stored
\* instant, and an instant that has been reached is as good as any other
\* that has, so such instants stay at `now`. Values below zero mark "none".
Nearer(t) ==
    IF t <= now THEN t
    ELSE IF t - SecPerMin > now THEN t - SecPerMin ELSE now

\* The marker one minute later: an expiry it holds is one minute nearer;
\* text that is no expiry stays as it is.
NearerFile(f) ==
    IF f.exists /\ ParseU64(Trim(f.data)) # ParseErr
    THEN FileOf(ToString(Nearer(ParseU64(Trim(f.data)))))
    ELSE f

\* One minute passes (the clock of check_pause, line 414, of the sleeps of
\* run_daemon and of run_control_menu, line 237).
Elapse ==
    /\ file' = NearerFile(file)
    /\ wakeAt' = Nearer(wakeAt)
    /\ cpEnd' = Nearer(cpEnd)
    /\ ctlEnd' = Nearer(ctlEnd)
    /\ lastSet' = Nearer(lastSet)
    /\ replaced' = Nearer(replaced)
    /\ <<file', wakeAt', cpEnd', ctlEnd', lastSet', replaced'>>
           # <<file, wakeAt, cpEnd, ctlEnd, lastSet, replaced>>
    /\ UNCHANGED <<now, ticks, hostVars, sup, site, privCmd, it, ctl, ctlRuns,
                   healed>>

\* The loop of run_daemon, pause activations of the control menu, and time.
NextExpire == SupNext \/ CtlPause \/ CtlWrite \/ Elapse

\* The Supervisor keeps running and time keeps passing.
SpecExpire ==
    InitLive /\ [][NextExpire]_vars /\ WF_vars(SupNext) /\ WF_vars(Elapse)

\* ------------------------------------------ pause activation over all of u64
\* The loop of run_daemon and pause activations with any number of minutes.
NextPause == Tick \/ SupNext \/ CtlPauseAny \/ CtlWrite

SpecPause == Init /\ [][NextPause]_vars

\* -------------------------------------------------- restart after a kill
\* A Supervisor started in place of the killed one resuming where that one
\* stopped: at the call of enter_hibernation.
Restart_ResumeSuspending ==
    /\ sup = "killed"
    /\ sup' = "hib_select"
    /\ site' = 1
    /\ cpEnd' = -1
    /\ wakeAt' = 0
    /\ privCmd' = "none"
    /\ it' = IterStart
    /\ inst' = [n |-> inst.n + 1, midLoss |-> it.p1 = "down" /\ it.p2 = "none"]
    /\ UNCHANGED <<now, ticks, file, doasConf, args, root, doc, boot, cfgFrom,
                   cfg, host, ctlVars, lastSet, healed>>

\* The program is started again after the Supervisor was killed: run_daemon
\* (lines 365-373) holds nothing but its locals, so the new instance enters
\* the loop at line 374 with the marker as it finds it.
Restart ==
    /\ sup = "killed"
    /\ sup' = "cp_exists"
    /\ site' = 1
    /\ cpEnd' = -1
    /\ wakeAt' = 0
    /\ privCmd' = "none"
    /\ it' = IterStart
    /\ inst' = [n |-> inst.n + 1, midLoss |-> it.p1 = "down" /\ it.p2 = "none"]
    /\ UNCHANGED <<now, ticks, file, doasConf, args, root, doc, boot, cfgFrom,
                   cfg, host, ctlVars, lastSet, healed>>

\* The loop of run_daemon, the terminate selection of the control menu and
\* the start of a new instance.
NextRestart == Tick \/ SupNext \/ CtlKill \/ CtlKillRemove \/ Restart

SpecRestart == Init /\ [][NextRestart]_vars

\* ----------------------------------------------------------- main (67-107)
\* Values the operator types at the prompts of run_interactive_wizard
\* (lines 327-346): any u64, zero included. The address comes from a gateway
\* found by scan_networks or from a prompt that takes no empty text.
WizardConfigs ==
    [lighthouse_ip : {DefaultConfig.lighthouse_ip},
     sleep_minutes : {0, 60},
     scan_interval_sec : ConfigSecs,
     grace_period_sec : {0},
     wakeup_wait_sec : {0}]

\* PortalConfig values a well-formed document deserializes to: serde checks
\* the types of the fields, not their values.
DocConfigs ==
    [lighthouse_ip : {"", DefaultConfig.lighthouse_ip},
     sleep_minutes : {0, 60},
     scan_interval_sec : ConfigSecs,
     grace_period_sec : {0},
     wakeup_wait_sec : {0}]

Documents == {DocAbsent, DocMalformed} \cup {DocOf(c) : c \in DocConfigs}

\* load_config_safe (lines 401-408): Ok(c) when the document is read and
\* deserialized, Err(()) otherwise.
LoadOk(d) == d.state = "valid"

\* `load_config_safe().unwrap_or_default()` (line 102)
LoadOrDefault(d) == IF LoadOk(d) THEN d.cfg ELSE DefaultConfig

\* The process as started from the command line, before main has run.
InitMain ==
    /\ now = 0
    /\ ticks = 0
    /\ file \in InitialMarkers
    /\ doasConf = FALSE
    /\ args \in [install : BOOLEAN, configure : BOOLEAN, off : BOOLEAN]
    /\ root \in BOOLEAN
    /\ doc \in Documents
    /\ boot = "main"
    /\ cfgFrom = "none"
    /\ cfg = DefaultConfig
    /\ sup = "off"
    /\ site = 1
    /\ cpEnd = -1
    /\ wakeAt = 0
    /\ privCmd = "none"
    /\ ctl = "idle"
    /\ ctlEnd = 0
    /\ ctlRuns = 0
    /\ replaced = -1
    /\ it = IterStart
    /\ lastSet = -1
    /\ healed = FALSE
    /\ inst = FirstInstance
    /\ host = HostStart

mainFrame ==
    <<now, ticks, file, doasConf, args, root, inst, host, supVars, ctlVars, lastSet, healed>>

\* `if args.install { run_system_install(); return; }` (lines 71-74)
MainInstall ==
    /\ boot = "main"
    /\ args.install
    /\ boot' = "exited"
    /\ UNCHANGED <<doc, cfg, cfgFrom, mainFrame>>

\* `if args.off { run_control_menu(temp_lang); return; }` (lines 83-86)
MainOff ==
    /\ boot = "main"
    /\ ~args.install /\ args.off
    /\ boot' = "exited"
    /\ UNCHANGED <<doc, cfg, cfgFrom, mainFrame>>

\* The condition of line 90: the wizard is asked for, or there is no document.
WantsWizard == args.configure \/ doc.state = "absent"

\* `if !is_root() { ... std::process::exit(1); }` (lines 92-99)
MainNeedsRoot ==
    /\ boot = "main"
    /\ ~args.install /\ ~args.off
    /\ WantsWizard /\ ~root
    /\ boot' = "exited"
    /\ UNCHANGED <<doc, cfg, cfgFrom, mainFrame>>

\* run_interactive_wizard() (lines 100, 262-362): the answers become the
\* PortalConfig and are written to the document.
MainWizard ==
    /\ boot = "main"
    /\ ~args.install /\ ~args.off
    /\ WantsWizard /\ root
    /\ \E c \in WizardConfigs : cfg' = c /\ doc' = DocOf(c)
    /\ cfgFrom' = "wizard"
    /\ boot' = "ready"
    /\ UNCHANGED mainFrame

\* `load_config_safe().unwrap_or_default()` (lines 101-103)
MainLoad ==
    /\ boot = "main"
    /\ ~args.install /\ ~args.off
    /\ ~WantsWizard
    /\ cfg' = LoadOrDefault(doc)
    /\ cfgFrom' = IF LoadOk(doc) THEN "document" ELSE "default"
    /\ boot' = "ready"
    /\ UNCHANGED <<doc, mainFrame>>

\* run_daemon(config) up to the loop (lines 106, 365-373)
StartDaemon ==
    /\ boot = "ready"
    /\ boot' = "daemon"
    /\ sup' = "cp_exists"
    /\ UNCHANGED <<now, ticks, file, doasConf, args, root, doc, cfgFrom, cfg, inst,
                   host,
                   site, cpEnd, wakeAt, privCmd, it, ctlVars, lastSet, healed>>

MainNext ==
    \/ MainInstall \/ MainOff \/ MainNeedsRoot \/ MainWizard \/ MainLoad
    \/ StartDaemon

\* main followed by the loop of run_daemon, with no Control Action.
NextMain == MainNext \/ Tick \/ SupNext

SpecMain == InitMain /\ [][NextMain]_vars

\* ============================================================ properties
Alive == sup # "killed"

\* The Supervisor is at the top of the loop of run_daemon (line 373).
LoopHead == sup = "cp_exists" /\ site = 1

\* The expiry the marker holds, or ParseErr.
MarkerExpiry == IF file.exists THEN ParseU64(Trim(file.data)) ELSE ParseErr

\* The marker holds an expiry strictly greater than the current time.
MarkerActive == MarkerExpiry # ParseErr /\ now < MarkerExpiry

NoPauseKinds == {"absent", "expired", "garbage"}

SleepPcs == {"sleep_paused", "sleep_ok", "sleep_grace", "sleep_cool", "sleep_wake"}

LoopPcs ==
    {"cp_exists", "cp_read", "cp_now", "cp_rm_exp", "cp_rm_bad",
     "ping1", "ping2", "hib_select", "hib_cmd"} \cup SleepPcs

\* ------------------------------------------------------------------- C1
\* C1 as stated: whenever the Supervisor calls enter_hibernation, the
\* marker does not hold an expiry greater than the current time.
C1_NeverSuspendWhilePaused == [][HibSelect => ~MarkerActive]_vars

\* C1, amended: enter_hibernation is called only in an iteration in which
\* both pause checks (line 374 and, after the grace wait, line 384) reported
\* no pause and both probes failed; a pause written after the check of
\* line 384 does not stop the call.
C1_SuspendOnlyAfterClearCheck ==
    it.susp > 0 =>
        /\ it.c1 \in NoPauseKinds
        /\ it.c2 \in NoPauseKinds
        /\ it.p1 = "down"
        /\ it.p2 = "down"

\* enter_hibernation has been called after a check that found the marker
\* expired, while the marker holds a pause that has not expired.
C1_Witness == it.susp = 1 /\ it.c2 = "expired" /\ sup = "hib_cmd" /\ MarkerActive

\* ------------------------------------------------------------------- C2
\* C2 as stated: while the operator's pause is in force (written by the
\* Control Action with expiry e, not cleared or replaced by it, now < e),
\* the marker still holds e: the Supervisor has not removed it.
C2_PauseNeverLost ==
    (lastSet # -1 /\ now < lastSet) => MarkerExpiry = lastSet

\* ------------------------------------------------------------------- C3
\* C3 as stated: a pause written at any point after the failed first probe
\* and before the second probe, and still unexpired, means no call of
\* enter_hibernation in that iteration.
C3_PauseBetweenProbesWins ==
    (it.setIn # "none" /\ MarkerActive) => it.susp = 0

\* C3, amended: if the pause is written after the failed first probe and
\* before the pause check of line 384 has looked at the marker, and has not
\* expired, then the iteration makes no second probe and no call of
\* enter_hibernation, and once the check has returned the Supervisor is
\* back at the top of the loop.
C3_PauseBeforeCheckWins ==
    (it.setIn = "before" /\ MarkerActive) =>
        /\ it.p2 = "none"
        /\ it.susp = 0
        /\ it.c2 \in {"none", "active"}
        /\ it.c2 = "active" => (LoopHead \/ ~Alive)

\* A pause written during the grace wait made the check of line 384 report
\* a pause, and the Supervisor is back at the top of the loop.
C3_Witness ==
    it.setIn = "before" /\ MarkerActive /\ it.c2 = "active" /\ LoopHead

\* ------------------------------------------------------------------- C4
\* C4: an iteration whose pause check at line 374 reported a pause makes no
\* probe and no call of enter_hibernation; it sleeps the poll interval and
\* is then at the top of the loop.
C4_PausedIterationSkips ==
    it.c1 = "active" =>
        /\ it.p1 = "none" /\ it.p2 = "none" /\ it.c2 = "none"
        /\ it.susp = 0 /\ it.cmds = 0
        /\ it.slept # -1
        /\ sup = "sleep_paused" \/ LoopHead \/ ~Alive
        /\ LoopHead => now >= it.slept + cfg.scan_interval_sec

\* A paused iteration has ended after a poll interval of 60 seconds.
C4_Witness ==
    it.c1 = "active" /\ LoopHead /\ cfg.scan_interval_sec = 60 /\ now > it.slept

\* ------------------------------------------------------------------- C5
\* C5: an iteration in which the first probe failed and the second probe
\* succeeded makes no call of enter_hibernation and is at the top of the
\* loop right after the second probe.
C5_TransientLossNoSuspend ==
    (it.p1 = "down" /\ it.p2 = "up") =>
        /\ it.susp = 0 /\ it.cmds = 0
        /\ LoopHead \/ ~Alive

\* A transient loss with a grace period of 60 seconds.
C5_Witness ==
    it.p1 = "down" /\ it.p2 = "up" /\ LoopHead /\ cfg.grace_period_sec = 60

\* ------------------------------------------------------------------- C6
\* The Supervisor has been killed, or the second probe has failed and the
\* call of enter_hibernation that follows it (line 392) is still to come.
CallPending == sup = "hib_select" \/ ~Alive

\* C6 as stated: with both probes failed, exactly one call of
\* enter_hibernation is made, and none if a pause was activated between
\* the two probes.
C6_OneSuspendUnlessPaused ==
    (it.p1 = "down" /\ it.p2 = "down" /\ ~CallPending) =>
        it.susp = (IF it.setIn # "none" /\ MarkerActive THEN 0 ELSE 1)

\* C6, amended: with both probes failed, exactly one call of
\* enter_hibernation is made in the iteration, also when a pause was
\* activated after the pause check of line 384 looked at the marker; when
\* that check reports a pause, the second probe is not made and there is
\* no call.
C6_OneSuspendAfterTwoFailures ==
    /\ (it.p1 = "down" /\ it.p2 = "down" /\ ~CallPending) => it.susp = 1
    /\ it.c2 = "active" => (it.p2 = "none" /\ it.susp = 0)
    /\ it.susp <= 1 /\ it.cmds <= it.susp
    /\ (it.susp = 1 /\ sup # "hib_cmd" /\ Alive) => it.cmds = 1

\* Both probes failed with a grace period of 60 seconds, a pause was
\* activated after the check of line 384, and the one call has been made.
C6_Witness ==
    /\ it.p1 = "down" /\ it.p2 = "down" /\ it.susp = 1 /\ it.cmds = 1
    /\ it.setIn = "after" /\ MarkerActive
    /\ cfg.grace_period_sec = 60

\* ------------------------------------------------------------------- C7
\* check_pause reported a pause / no pause to run_daemon in this step.
ReportsPause == sup' = (IF site = 1 THEN "sleep_paused" ELSE "cp_exists")

ReportsNoPause == sup' = (IF site = 1 THEN "ping1" ELSE "ping2")

C7_Step ==
    /\ CpExists =>
         IF file.exists THEN sup' = "cp_read" /\ file' = file
         ELSE ReportsNoPause /\ file' = NoFile
    /\ CpRead =>
         /\ file' = file
         /\ IF MarkerExpiry = ParseErr THEN sup' = "cp_rm_bad"
            ELSE sup' = "cp_now" /\ cpEnd' = MarkerExpiry
    /\ CpNow =>
         IF cpEnd > now THEN ReportsPause /\ file' = file
         ELSE sup' = "cp_rm_exp" /\ file' = file
    /\ (CpRemoveExpired \/ CpRemoveBad) => (ReportsNoPause /\ file' = NoFile)

\* C7: check_pause reports no pause and leaves the marker absent when the
\* marker does not exist, when the content it reads does not parse as an
\* unsigned integer, or when the expiry it reads is <= the time it samples;
\* it reports a pause and leaves the marker as it is exactly when the
\* expiry it reads is > the time it samples.
C7_CheckPauseContract == [][C7_Step]_vars

\* In one iteration the check of line 374 removed an unparsable marker and
\* the check of line 384 removed an expired one.
C7_Witness ==
    it.c1 = "garbage" /\ it.c2 = "expired" /\ ~file.exists /\ sup = "ping2"

\* ------------------------------------------------------------------- C8
C8_Step ==
    /\ (CpNow /\ site = 1) =>
         IF cpEnd > now THEN sup' = "sleep_paused" ELSE sup' = "cp_rm_exp"
    /\ (CpRemoveExpired /\ site = 1) =>
         (file' = NoFile /\ sup' = "ping1" /\ wakeAt' = 0)

C8_State ==
    /\ it.c1 = "expired" =>
         /\ it.slept = -1
         /\ it.p1 = "none" => (sup = "ping1" \/ ~Alive)
    /\ it.c1 = "active" => (it.p1 = "none" /\ it.p2 = "none")

\* C8: when the pause check of line 374 finds the expiry <= the time it
\* samples, it deletes the marker and the same iteration goes on to the
\* probe without a poll-interval sleep; when it finds the expiry still in
\* the future, the iteration makes no probe.
C8_ExpiredPauseProbesSameIteration == []C8_State /\ [][C8_Step]_vars

\* The check of line 374 found an expired marker and the probe of the same
\* iteration has been made.
C8_Witness == it.c1 = "expired" /\ it.p1 # "none" /\ it.slept = -1 /\ now > 0

\* ------------------------------------------------------------------- C9
\* C9: after a call of enter_hibernation the Supervisor is at the top of the
\* loop (next pause check and probe) no sooner than the wake-settle duration
\* after the command returned, and no sooner than cooldown + wake-settle
\* after it when the command failed; an iteration makes at most one call.
C9_SettleAndCooldown ==
    /\ it.hibAt # -1 =>
         /\ it.susp = 1 /\ it.cmds = 1
         /\ sup \in {"sleep_cool", "sleep_wake", "cp_exists", "killed"}
         /\ sup = "sleep_cool" => ~it.hibOk
         /\ LoopHead =>
              now >= it.hibAt + (IF it.hibOk THEN 0 ELSE Cooldown)
                       + cfg.wakeup_wait_sec
    /\ it.susp <= 1

\* A failed suspend command, followed by the cooldown and a wake-settle wait
\* of 60 seconds, and the Supervisor back at the top of the loop.
C9_Witness ==
    /\ it.hibAt # -1 /\ ~it.hibOk /\ LoopHead
    /\ cfg.wakeup_wait_sec = 60
    /\ now = it.hibAt + Cooldown + 60

\* ------------------------------------------------------------------ C10
C10_State ==
    /\ sup \in LoopPcs \cup {"killed"}
    /\ Alive => (ENABLED SupNext \/ (sup \in SleepPcs /\ now < wakeAt))

\* C10: the Supervisor is always at a position of the loop from which it
\* has a next step (or is in a sleep that has not run out), whatever the
\* probes, the marker and the suspend command did; it stops only when the
\* Control Action kills it.
C10_LoopNeverStops ==
    []C10_State /\ [][(Alive /\ ~Alive') => CtlKill]_vars

\* The loop goes on after an unparsable marker, two failed probes and a
\* failed suspend command.
C10_Witness ==
    /\ it.c1 = "garbage" /\ it.p1 = "down" /\ it.p2 = "down"
    /\ it.hibAt # -1 /\ ~it.hibOk /\ LoopHead

\* ------------------------------------------------------------------ C11
\* C11: when the document exists but is malformed the loop of run_daemon is
\* not started with it: run_daemon never gets a PortalConfig that came
\* neither from the document nor from the wizard.
C11_NoRunOnMalformedDocument ==
    boot \in {"ready", "daemon"} => cfgFrom \in {"document", "wizard"}

\* ------------------------------------------------------------------ C17
\* The RunConfig constraints: address non-empty, poll interval > 0, suspend
\* duration > 0, grace period and wake-settle duration >= 0.
RunConfigOk(c) ==
    /\ c.lighthouse_ip # ""
    /\ c.scan_interval_sec > 0
    /\ c.sleep_minutes > 0
    /\ c.grace_period_sec >= 0
    /\ c.wakeup_wait_sec >= 0

\* C17: the PortalConfig the loop of run_daemon runs under satisfies the
\* RunConfig constraints, whether it comes from the document, the wizard or
\* the defaults.
C17_RunConfigValid == boot = "daemon" => RunConfigOk(cfg)

\* ------------------------------------------------------------------ C12
\* C12: a Supervisor started after a kill begins with the pause check of
\* line 374 with nothing carried over and the marker untouched, the kill
\* itself leaves the marker as it was, and every call of enter_hibernation
\* follows two failed probes of the calling instance, the second at least
\* the grace period after the first.
C12_RestartBeginsAfresh ==
    [][/\ Restart => /\ sup' = "cp_exists" /\ site' = 1
                     /\ it' = IterStart
                     /\ file' = file
       /\ CtlKill => file' = file
       /\ HibSelect => /\ it.p1 = "down" /\ it.p2 = "down"
                       /\ it.waited]_vars

\* A second instance, started after the first was killed between its failed
\* first probe and its second probe, is about to call enter_hibernation.
C12_Witness == inst.n > 0 /\ inst.midLoss /\ sup = "hib_select"

\* ------------------------------------------------------------------ C13
\* C13: a pause activation computes its expiry from the current time and the
\* minutes entered alone, and its write leaves the marker holding the text
\* of exactly that expiry (text that check_pause reads back as the same
\* number), whatever the marker held before: the later of two activations
\* wins, and nothing is added to an expiry already stored.
C13_LastActivationWins ==
    [][/\ CtlPause => \E mins \in MinuteInputs :
                          ctlEnd' = now + (mins * SecPerMin)
       /\ CtlWrite => /\ file' = FileOf(ToString(ctlEnd))
                      /\ ParseU64(Trim(ToString(ctlEnd))) = ctlEnd]_vars

\* A pause activation has overwritten the still active expiry of an earlier
\* one, and the marker holds a different expiry now.
C13_Witness ==
    /\ replaced # -1
    /\ MarkerExpiry # ParseErr
    /\ MarkerExpiry # replaced

\* ------------------------------------------------------------------ C14
\* The Supervisor is inside check_pause past the test of line 411.
InsideRead == sup \in {"cp_read", "cp_now", "cp_rm_exp", "cp_rm_bad"}

C14_State == healed => ~file.exists /\ ~InsideRead

C14_Step ==
    /\ (healed /\ CpExists) =>
           /\ ReportsNoPause
           /\ file' = NoFile
           /\ healed'
    /\ ((CpRemoveExpired \/ CpRemoveBad) /\ ~file.exists) =>
           /\ ReportsNoPause
           /\ file' = file

\* C14: once check_pause has deleted an expired marker, and until a pause
\* activation writes one, the marker stays absent and every call of
\* check_pause ends at the test of line 411 reporting no pause; a
\* remove_file that finds the marker already gone changes nothing and
\* check_pause still returns false.
C14_ExpiredReadIdempotent == []C14_State /\ [][C14_Step]_vars

\* A call of check_pause in a later iteration than the one that deleted the
\* expired marker has reported no pause.
C14_Witness ==
    /\ healed
    /\ it.c1 = "absent" /\ it.c2 = "none"
    /\ sup = "ping1"

\* ------------------------------------------------------------------ C15
\* The control menu's terminate selection ends in this step: its process is
\* gone after pkill, or it has run line 254.
TerminateEnds == (CtlKill /\ ctl' = "idle") \/ CtlKillRemove

\* C15: when the terminate selection of the control menu ends, the
\* Supervisor has been signalled and the pause marker is absent.
C15_TerminateClearsMarker ==
    [][TerminateEnds => (sup' = "killed" /\ ~file'.exists)]_vars

\* ------------------------------------------------------------------ C16
\* C16: for every number of minutes a pause activation computes, and then
\* writes, exactly now + mins*60, which is never smaller than now.
C16_ExpiryIsNowPlusMinutes ==
    [][/\ \A mins \in WideMinuteInputs :
            CtlPauseWith(mins) => /\ ctl' = "c_write"
                                  /\ ctlEnd' = now + (mins * SecPerMin)
                                  /\ ctlEnd' >= now
       /\ CtlWrite => MarkerExpiry' = ctlEnd]_vars

\* ------------------------------------------------------------------ C18
\* C18: a call of enter_hibernation takes doas exactly when /etc/doas.conf
\* exists at that moment and sudo otherwise, runs that command once and no
\* other, and counts as a success (returning without the cooldown) exactly
\* when the command was started and exited with status zero.
C18_OneCommandPerCall ==
    [][/\ HibSelect => /\ privCmd' = (IF doasConf THEN "doas" ELSE "sudo")
                       /\ it'.susp = 1 /\ it'.cmds = 0
       /\ HibCommand => /\ it'.ran = privCmd /\ privCmd \in {"doas", "sudo"}
                        /\ it'.susp = 1 /\ it'.cmds = 1
                        /\ it'.hibOk <=> it'.outcome = "ok"
                        /\ sup' = (IF it'.outcome = "ok" THEN "sleep_wake"
                                   ELSE "sleep_cool")
       /\ (WakeCooldown \/ WakeSettle) => it'.cmds = it.cmds]_vars

\* A call has run sudo after an earlier call of the same Supervisor ran doas.
C18_Witness ==
    /\ host.usedBefore = "doas"
    /\ it.ran = "sudo" /\ it.cmds = 1

\* ------------------------------------------------------------------ C19
\* C19: a step of run_daemon or check_pause leaves the marker as it is or
\* deletes it, and never changes the PortalConfig or the document; the steps
\* of a read up to the report of an active pause leave the marker as it is.
C19_SupervisorOnlyDeletes ==
    [][SupNext => /\ file' = file \/ file' = NoFile
                  /\ cfg' = cfg /\ doc' = doc
                  /\ (CpExists \/ CpRead \/ CpNow) => file' = file
                  /\ ReportsPause => file' = file]_vars

\* In one iteration check_pause deleted an expired marker at line 374 and
\* left alone, at line 384, the active pause written after that.
C19_Witness ==
    /\ it.c1 = "expired" /\ it.c2 = "active"
    /\ MarkerActive /\ LoopHead

\* ------------------------------------------------------------------ C20
\* The record of the running iteration holds a probe that succeeded.
ProbeUp == it.p1 = "up" \/ it.p2 = "up"

\* enter_hibernation has been called and is about to run its command.
CallMade == sup = "hib_cmd"

\* C20: when no pause is ever in force and from some point on no probe
\* succeeds, the Supervisor calls enter_hibernation again and again.
C20_LossLeadsToSuspend == (<>[]~ProbeUp /\ []~MarkerActive) => []<>CallMade

\* enter_hibernation is called after two failed probes with a grace period
\* of one minute between them and no pause in force.
C20_Witness ==
    /\ CallMade /\ it.p1 = "down" /\ it.p2 = "down"
    /\ ~MarkerActive
    /\ cfg.grace_period_sec = 60 /\ cfg.wakeup_wait_sec = 60

\* ------------------------------------------------------------------ C21
\* The control menu has written a pause that was active when written.
PauseSet == lastSet # -1

\* check_pause has deleted a marker it read as expired, nothing has been
\* written since, and run_daemon is at the probe that follows that check.
ExpiredAndProbing == healed /\ sup \in {"ping1", "ping2"}

\* C21: once a pause has been set, and with only finitely many activations
\* after it, the Supervisor eventually deletes the marker on a read that
\* found it expired and goes on to probe.
C21_PauseExpiresAndProbingResumes == PauseSet ~> ExpiredAndProbing

\* What holds of the marker whatever removes it: an active pause always
\* comes to a state with no active pause and the Supervisor probing.
NoPauseForever == MarkerActive ~> (~MarkerActive /\ sup \in {"ping1", "ping2"})
====
